---- MODULE Spec2Model ----
(***************************************************************************)
(* Spatial weights container W of pysal/weights/weights.py: the adjacency  *)
(* store (neighbors, weights, id_order), the _cache of derived quantities, *)
(* the transform registry and set_transform, and the id_order setter.      *)
(*                                                                         *)
(* Numbers.  Python floats are modelled exactly, as elements              *)
(* (p + q*sqrt(2)) / d of the field Q(sqrt 2), extended with the IEEE      *)
(* values Inf, -Inf and NaN (d = 0).  The square roots set_transform('V')  *)
(* takes stay in this field for the weight rows the model draws (rows of   *)
(* at most two weights whose sum of squares is r*r or 2*r*r).  Signed      *)
(* zeros and rounding are not modelled.  A division by zero raises         *)
(* ZeroDivisionError between Python floats and gives inf or nan when an    *)
(* operand is a numpy.float64 scalar; np_float tells which lists hold      *)
(* numpy scalars.                                                          *)
(***************************************************************************)
EXTENDS Integers, Sequences, FiniteSets, TLC

VARIABLES neighbors, weights, transformations, transform, id_order,
          id_order_set, cache, last, w0, _mean_neighbors, np_float,
          iters, higher, shimbel_info, wsp

\* the objects beside the container: the iterators made by __iter__, the
\* values higher_order and shimbel have returned, and a WSP
detached == <<iters, higher, shimbel_info, wsp>>

vars == <<neighbors, weights, transformations, transform, id_order,
          id_order_set, cache, last, w0, _mean_neighbors, np_float, detached>>

----------------------------------------------------------------------------
(* Bounds of the model *)

\* weights of the drawn containers are scaled by 1..MaxScale
MaxScale == 2
\* an assigned id_order repeats at most MaxDup ids
MaxDup == 1
\* higher_order is asked for the orders 1..MaxOrder
MaxOrder == 4
\* reads of one WSP getter are counted up to MaxReads
MaxReads == 3
\* at most MaxIters iterators are made of one container
MaxIters == 2

----------------------------------------------------------------------------
(* Exact arithmetic on the extended field Q(sqrt 2) *)

Abs(x) == IF x < 0 THEN -x ELSE x

Sgn(x) == IF x > 0 THEN 1 ELSE IF x < 0 THEN -1 ELSE 0

RECURSIVE GCD(_, _)
GCD(a, b) == IF b = 0 THEN a ELSE GCD(b, a % b)

\* sign of p + q*sqrt(2)
Sgn2(p, q) ==
    IF p >= 0 /\ q >= 0 THEN (IF p = 0 /\ q = 0 THEN 0 ELSE 1)
    ELSE IF p <= 0 /\ q <= 0 THEN -1
    ELSE IF p > 0 THEN Sgn(p * p - 2 * q * q)
    ELSE Sgn(2 * q * q - p * p)

Num(p, q, d) == [p |-> p, q |-> q, d |-> d]

Norm(p, q, d) ==
    IF d = 0 THEN Num(Sgn2(p, q), 0, 0)
    ELSE LET g == GCD(GCD(Abs(p), Abs(q)), d)
         IN  Num(p \div g, q \div g, d \div g)

Int2Num(k) == Num(k, 0, 1)
Zero == Int2Num(0)
One  == Int2Num(1)
Inf  == Num(1, 0, 0)
NegInf == Num(-1, 0, 0)
NaN  == Num(0, 0, 0)

IsFinite(a) == a.d > 0
IsNaN(a)    == a.d = 0 /\ a.p = 0
IsZero(a)   == a.d > 0 /\ a.p = 0 /\ a.q = 0
SgnNum(a)   == Sgn2(a.p, a.q)

Add(a, b) ==
    IF IsNaN(a) \/ IsNaN(b) THEN NaN
    ELSE IF a.d = 0 /\ b.d = 0 THEN (IF a = b THEN a ELSE NaN)
    ELSE IF a.d = 0 THEN a
    ELSE IF b.d = 0 THEN b
    ELSE Norm(a.p * b.d + b.p * a.d, a.q * b.d + b.q * a.d, a.d * b.d)

Mul(a, b) ==
    IF IsNaN(a) \/ IsNaN(b) THEN NaN
    ELSE IF a.d = 0 \/ b.d = 0
         THEN (IF SgnNum(a) * SgnNum(b) = 0 THEN NaN
               ELSE Num(SgnNum(a) * SgnNum(b), 0, 0))
    ELSE Norm(a.p * b.p + 2 * a.q * b.q, a.p * b.q + a.q * b.p, a.d * b.d)

\* 1/a with IEEE results: 1/0 = Inf, 1/Inf = 0, 1/NaN = NaN
Inv(a) ==
    IF IsNaN(a) THEN NaN
    ELSE IF a.d = 0 THEN Zero
    ELSE IF IsZero(a) THEN Inf
    ELSE LET den == a.p * a.p - 2 * a.q * a.q
             s   == Sgn(den)
         IN  Norm(s * a.d * a.p, -(s * a.d * a.q), Abs(den))

\* a / b where b is not a Python-float zero
Div(a, b) == Mul(a, Inv(b))

IsSquare(x) == \E k \in 0..x : k * k = x
ISqrt(x)    == CHOOSE k \in 0..x : k * k = x

\* math.sqrt on a rational a >= 0 whose root lies in Q(sqrt 2)
Sqrt(a) ==
    IF a.d = 0 THEN a
    ELSE IF IsSquare(a.p) /\ IsSquare(a.d) THEN Norm(ISqrt(a.p), 0, ISqrt(a.d))
    ELSE LET g == GCD(a.p, 2 * a.d)
             n == a.p \div g
             m == (2 * a.d) \div g
         IN  Norm(0, ISqrt(n), ISqrt(m))

RECURSIVE SumSeq(_)
SumSeq(s) == IF s = <<>> THEN Zero ELSE Add(Head(s), SumSeq(Tail(s)))

----------------------------------------------------------------------------
(* Sequences and ids *)

SetOf(s) == {s[k] : k \in DOMAIN s}

Reverse(s) == [k \in 1..Len(s) |-> s[Len(s) + 1 - k]]

MaxOf(S) == CHOOSE x \in S : \A y \in S : y <= x
MinOf(S) == CHOOSE x \in S : \A y \in S : x <= y

\* list.sort() of the keys
RECURSIVE SortedSeq(_)
SortedSeq(S) == IF S = {} THEN <<>> ELSE <<MinOf(S)>> \o SortedSeq(S \ {MinOf(S)})

\* the ids of the container: the keys of neighbors
Ids == DOMAIN neighbors

\* len(self.neighbors[id]) == len(self.weights[id]) for one mapping
Aligned(nb, w) == DOMAIN w = DOMAIN nb /\ \A i \in DOMAIN nb : Len(w[i]) = Len(nb[i])

----------------------------------------------------------------------------
(* Constructor inputs *)

Path       == (1 :> <<2>>)    @@ (2 :> <<1, 3>>) @@ (3 :> <<2>>)
WithIsland == (1 :> <<2>>)    @@ (2 :> <<1>>)    @@ (3 :> <<>>)
Fan        == (1 :> <<3, 2>>) @@ (2 :> <<1>>)    @@ (3 :> <<1>>)

\* the 3x3 regular lattice of the docstrings (pysal.lat2W(3,3))
Lattice ==
    (0 :> <<3, 1>>) @@ (1 :> <<0, 4, 2>>) @@ (2 :> <<1, 5>>) @@
    (3 :> <<0, 6, 4>>) @@ (4 :> <<1, 3, 7, 5>>) @@ (5 :> <<2, 4, 8>>) @@
    (6 :> <<3, 7>>) @@ (7 :> <<4, 6, 8>>) @@ (8 :> <<5, 7>>)

Row(s) == [k \in DOMAIN s |-> Int2Num(s[k])]

W3(a, b, c) == (1 :> Row(a)) @@ (2 :> Row(b)) @@ (3 :> Row(c))

\* weights = None (or an empty dict): "if not weights"
NoWeights == <<>>

Container(nb, w) == [neighbors |-> nb, weights |-> w]

\* weights omitted: every edge gets 1.0
UnitContainers ==
    {Container(Path, NoWeights), Container(WithIsland, NoWeights),
     Container(Fan, NoWeights)}

\* explicit weights, aligned with the neighbor lists: positive rows, a row
\* summing to zero, a global sum of zero, and weights that are all zero
WeightedContainers ==
    {Container(Path, W3(<<k>>, <<3 * k, 4 * k>>, <<2 * k>>)) : k \in 1..MaxScale}
    \cup {Container(Path, W3(<<1>>, <<1, -1>>, <<1>>)),
          Container(WithIsland, W3(<<1>>, <<-1>>, <<>>)),
          Container(WithIsland, W3(<<0>>, <<0>>, <<>>)),
          Container(Fan, W3(<<1, 7>>, <<1>>, <<2>>))}

Containers == UnitContainers \cup WeightedContainers

\* an id that is no key of the container
Foreign(S) == MaxOf(S) + 1

ValidOrders(S) == {SortedSeq(S), Reverse(SortedSeq(S))}

\* the ids all present, some repeated
DupOrders(S) ==
    LET s == SortedSeq(S) n == Len(s)
    IN  UNION {{s \o SubSeq(s, 1, k), SubSeq(s, n - k + 1, n) \o s} : k \in 1..MaxDup}

\* an id missing, an id too many, an id replaced
MismatchOrders(S) ==
    LET s == SortedSeq(S)
    IN  {Tail(s), Append(s, Foreign(S)), Append(Tail(s), Foreign(S))}

OrderInputs(S) == ValidOrders(S) \cup DupOrders(S) \cup MismatchOrders(S)

\* id_order = None
NoOrder == [given |-> FALSE, order |-> <<>>]
GivenOrder(o) == [given |-> TRUE, order |-> o]

----------------------------------------------------------------------------
(* The _cache dictionary *)

EmptyCache == <<>>

Cached(c, key) == key \in DOMAIN c

Store(c, key, value) == (key :> value) @@ c

\* what the last operation was and whether it raised
Outcome(op, raised) == [op |-> op, raised |-> raised]

----------------------------------------------------------------------------
(* W.__init__ *)

\* which weight lists hold numpy.float64 scalars and not Python floats: the
\* current mapping (weights) and the registered ones (names).  The
\* constructor's lists are Python floats
PythonFloats == [weights |-> FALSE, names |-> {}]

DefaultWeights(nb) == [i \in DOMAIN nb |-> [k \in 1..Len(nb[i]) |-> One]]

\* the id_order argument: None, or one of the orders S
CtorOrders(S) == {NoOrder} \cup {GivenOrder(x) : x \in S}

\* the container W(c.neighbors, c.weights, o) after __init__
Construct(c, o) ==
    LET w == IF c.weights = NoWeights THEN DefaultWeights(c.neighbors)
             ELSE c.weights
    IN  /\ neighbors = c.neighbors
        /\ weights = w
        /\ transformations = ("O" :> w)
        /\ transform = "O"
        /\ id_order = IF o.given THEN o.order ELSE SortedSeq(DOMAIN c.neighbors)
        /\ id_order_set = o.given
        /\ cache = EmptyCache
        /\ last = Outcome("__init__", FALSE)
        /\ w0 = w
        /\ _mean_neighbors = <<>>
        /\ np_float = PythonFloats

\* no iterator made, nothing returned yet, no WSP built
NoWSP == [built |-> FALSE]

Alone ==
    /\ iters = <<>>
    /\ higher = <<>>
    /\ shimbel_info = <<>>
    /\ wsp = NoWSP

Init ==
    \E c \in Containers :
      \E o \in CtorOrders(ValidOrders(DOMAIN c.neighbors)) :
         Construct(c, o) /\ Alone

----------------------------------------------------------------------------
(* Cached getters.  Each takes the cache and gives the cache after the     *)
(* read, whether the read raised, and (when it did not) the value.         *)

Ok(c, v)  == [c |-> c, raised |-> FALSE, v |-> <<v>>]
Raised(c) == [c |-> c, raised |-> TRUE, v |-> <<>>]
Val(r)    == r.v[1]

\* W.n
get_n(c) ==
    IF Cached(c, "n") THEN Ok(c, c["n"])
    ELSE Ok(Store(c, "n", Cardinality(Ids)), Cardinality(Ids))

\* enumerate(self._id_order): a repeated id keeps its last position
Id2iOf(order) ==
    [id \in SetOf(order) |-> MaxOf({k - 1 : k \in {j \in DOMAIN order : order[j] = id}})]

\* W.id2i
get_id2i(c) ==
    IF Cached(c, "id2i") THEN Ok(c, c["id2i"])
    ELSE Ok(Store(c, "id2i", Id2iOf(id_order)), Id2iOf(id_order))

\* W.cardinalities: self.neighbors[i] is a KeyError for an i that is no key
get_cardinalities(c) ==
    IF Cached(c, "cardinalities") THEN Ok(c, c["cardinalities"])
    ELSE IF \E k \in DOMAIN id_order : id_order[k] \notin Ids THEN Raised(c)
    ELSE LET v == [i \in SetOf(id_order) |-> Len(neighbors[i])]
         IN  Ok(Store(c, "cardinalities", v), v)

\* W.neighbor_offsets: id2i[neigh] is a KeyError for a neighbor not in id_order
get_neighbor_offsets(c) ==
    IF Cached(c, "neighbors_0") THEN Ok(c, c["neighbors_0"])
    ELSE LET r    == get_id2i(c)
             id2i == Val(r)
         IN  IF \E i \in Ids : \E k \in DOMAIN neighbors[i] :
                    neighbors[i][k] \notin DOMAIN id2i
             THEN Raised(r.c)
             ELSE LET v == [i \in Ids |->
                              [k \in DOMAIN neighbors[i] |-> id2i[neighbors[i][k]]]]
                  IN  Ok(Store(r.c, "neighbors_0", v), v)

\* one entry <<id, k>> per neighbor edge: the k-th neighbor of id
Edges == UNION {{<<i, k>> : k \in DOMAIN neighbors[i]} : i \in Ids}

RECURSIVE SumEdges(_, _)
SumEdges(E, w) ==
    IF E = {} THEN Zero
    ELSE LET e == CHOOSE x \in E : TRUE
         IN  Add(w[e[1]][e[2]], SumEdges(E \ {e}, w))

\* faulty variant: row and column are exchanged
MatrixOf_transposed(n, id2i, offsets, w) ==
    [shape |-> n,
     cell  |-> [rc \in (0..(n - 1)) \X (0..(n - 1)) |->
                  SumEdges({e \in Edges : id2i[e[1]] = rc[2]
                                          /\ offsets[e[1]][e[2]] = rc[1]}, w)]]

\* csr_matrix((data, (row, col)), shape=(n, n)): entries at one cell add up
MatrixOf(n, id2i, offsets, w) ==
    [shape |-> n,
     cell  |-> [rc \in (0..(n - 1)) \X (0..(n - 1)) |->
                  SumEdges({e \in Edges : id2i[e[1]] = rc[1]
                                          /\ offsets[e[1]][e[2]] = rc[2]}, w)]]

\* W.sparse with W._build_sparse
get_sparse(c) ==
    IF Cached(c, "sparse") THEN Ok(c, c["sparse"])
    ELSE
    LET r1 == get_id2i(c)
        r2 == get_neighbor_offsets(r1.c)
        r3 == get_cardinalities(r2.c)
        r4 == get_n(r3.c)
        id2i == Val(r1)
        offsets == Val(r2)
        n == Val(r4)
    IN  IF r2.raised THEN Raised(r2.c)
        ELSE IF r3.raised THEN Raised(r3.c)
        ELSE IF \E i \in Ids : i \notin DOMAIN Val(r3) THEN Raised(r3.c)
        ELSE IF \E e \in Edges : id2i[e[1]] >= n \/ offsets[e[1]][e[2]] >= n
             THEN Raised(r4.c)
        ELSE LET m == MatrixOf(n, id2i, offsets, weights)
             IN  Ok(Store(r4.c, "sparse", m), m)

RECURSIVE SumRowCells(_, _, _)
\* the sum of the cells of row r in the columns below c
SumRowCells(m, r, c) ==
    IF c = 0 THEN Zero ELSE Add(SumRowCells(m, r, c - 1), m.cell[<<r, c - 1>>])

RECURSIVE SumMatrixRows(_, _)
SumMatrixRows(m, r) ==
    IF r = 0 THEN Zero
    ELSE Add(SumMatrixRows(m, r - 1), SumRowCells(m, r - 1, m.shape))

\* self.sparse.sum()
MatrixSum(m) == SumMatrixRows(m, m.shape)

\* W.s0
get_s0(c) ==
    IF Cached(c, "s0") THEN Ok(c, c["s0"])
    ELSE LET r == get_sparse(c)
         IN  IF r.raised THEN Raised(r.c)
             ELSE Ok(Store(r.c, "s0", MatrixSum(Val(r))), MatrixSum(Val(r)))

----------------------------------------------------------------------------
(* Reads of the derived quantities *)

Reads == {"n", "id2i", "cardinalities", "neighbor_offsets", "sparse", "s0"}

Getter(name, c) ==
    CASE name = "n" -> get_n(c)
      [] name = "id2i" -> get_id2i(c)
      [] name = "cardinalities" -> get_cardinalities(c)
      [] name = "neighbor_offsets" -> get_neighbor_offsets(c)
      [] name = "sparse" -> get_sparse(c)
      [] name = "s0" -> get_s0(c)

Read(name) ==
    LET r == Getter(name, cache)
    IN  /\ cache' = r.c
        /\ last' = Outcome("read", r.raised)
        /\ UNCHANGED <<neighbors, weights, transformations, transform, id_order,
                       id_order_set, w0, np_float, _mean_neighbors, detached>>

----------------------------------------------------------------------------
(* Statistics of the cardinalities and of the sparse matrix *)

\* the key a getter looks up in _cache before it computes
TestedKey(name) ==
    CASE name = "mean_neighbors" -> "max_neighbors"
      [] name = "diagW2" -> "diagw2"
      [] OTHER -> name

\* the key under which a getter stores what it computed
StoredKey(name) ==
    CASE name = "trcW2" -> "trcw2"
      [] name = "diagW2" -> "diagW2"
      [] OTHER -> name

\* a read of the getter with cache c takes the computing branch
Computes(name, c) == ~Cached(c, TestedKey(name))

\* the values of the cardinalities dict, as a list
ValuesOf(f) == [k \in 1..Cardinality(DOMAIN f) |-> f[SortedSeq(DOMAIN f)[k]]]

\* W.max_neighbors
get_max_neighbors(c) ==
    IF ~Computes("max_neighbors", c) THEN Ok(c, c["max_neighbors"])
    ELSE LET r == get_cardinalities(c)
         IN  IF r.raised THEN Raised(r.c)
             ELSE LET v == MaxOf(SetOf(ValuesOf(Val(r))))
                  IN  Ok(Store(r.c, StoredKey("max_neighbors"), v), v)

\* W.min_neighbors
get_min_neighbors(c) ==
    IF ~Computes("min_neighbors", c) THEN Ok(c, c["min_neighbors"])
    ELSE LET r == get_cardinalities(c)
         IN  IF r.raised THEN Raised(r.c)
             ELSE LET v == MinOf(SetOf(ValuesOf(Val(r))))
                  IN  Ok(Store(r.c, StoredKey("min_neighbors"), v), v)

\* W.mean_neighbors, with self._mean_neighbors before (attr) and after the
\* read: return self._mean_neighbors is an AttributeError while the
\* attribute was never assigned
get_mean_neighbors(c, attr) ==
    IF ~Computes("mean_neighbors", c)
    THEN IF attr = <<>> THEN [c |-> c, raised |-> TRUE, v |-> <<>>, attr |-> attr]
         ELSE [c |-> c, raised |-> FALSE, v |-> attr, attr |-> attr]
    ELSE LET r == get_cardinalities(c)
         IN  IF r.raised
             THEN [c |-> r.c, raised |-> TRUE, v |-> <<>>, attr |-> attr]
             ELSE LET s == ValuesOf(Val(r))
                      \* np.mean of a list of ints
                      v == Div(SumSeq([k \in DOMAIN s |-> Int2Num(s[k])]),
                               Int2Num(Len(s)))
                  IN  [c |-> Store(r.c, StoredKey("mean_neighbors"), v),
                       raised |-> FALSE, v |-> <<v>>, attr |-> <<v>>]

\* zip(bin, ct) of np.histogram(values, range(lo, hi + 2)): one pair per
\* cardinality lo..hi with the number of ids that have it
Histogram(values, lo, hi) ==
    [k \in 1..(hi - lo + 1) |->
        <<lo + k - 1, Cardinality({j \in DOMAIN values : values[j] = lo + k - 1})>>]

\* W.histogram
get_histogram(c) ==
    IF ~Computes("histogram", c) THEN Ok(c, c["histogram"])
    ELSE LET r1 == get_cardinalities(c)
             r2 == get_min_neighbors(r1.c)
             r3 == get_max_neighbors(r2.c)
         IN  IF r1.raised THEN Raised(r1.c)
             ELSE LET v == Histogram(ValuesOf(Val(r1)), Val(r2), Val(r3))
                  IN  Ok(Store(r3.c, StoredKey("histogram"), v), v)

\* (self.sparse * self.sparse).diagonal().  A cell that is not stored takes
\* no part in a sparse product; in the containers drawn a cell and its
\* mirror cell are both stored or both not
Diagonal2(m) ==
    [i \in 1..m.shape |->
        SumSeq([k \in 1..m.shape |->
                  IF IsZero(m.cell[<<i - 1, k - 1>>]) \/ IsZero(m.cell[<<k - 1, i - 1>>])
                  THEN Zero
                  ELSE Mul(m.cell[<<i - 1, k - 1>>], m.cell[<<k - 1, i - 1>>])])]

\* W.diagW2: the value stays in self._diagW2, which the read returns
get_diagW2(c) ==
    IF ~Computes("diagW2", c) THEN Ok(c, c[StoredKey("diagW2")])
    ELSE LET r == get_sparse(c)
         IN  IF r.raised THEN Raised(r.c)
             ELSE Ok(Store(r.c, StoredKey("diagW2"), Diagonal2(Val(r))),
                     Diagonal2(Val(r)))

\* W.trcW2: the value stays in self._trcW2, which the read returns
get_trcW2(c) ==
    IF ~Computes("trcW2", c) THEN Ok(c, c[StoredKey("trcW2")])
    ELSE LET r == get_diagW2(c)
         IN  IF r.raised THEN Raised(r.c)
             ELSE Ok(Store(r.c, StoredKey("trcW2"), SumSeq(Val(r))), SumSeq(Val(r)))

\* W.asymmetry: the <<row, col>> where sparse.transpose() - sparse is
\* nonzero ([] is the empty set)
asymmetry(m) ==
    {rc \in DOMAIN m.cell :
        ~IsZero(Add(m.cell[<<rc[2], rc[1]>>], Mul(Int2Num(-1), m.cell[rc])))}

\* W.asymmetries
get_asymmetries(c) ==
    IF ~Computes("asymmetries", c) THEN Ok(c, c["asymmetries"])
    ELSE LET r == get_sparse(c)
         IN  IF r.raised THEN Raised(r.c)
             ELSE Ok(Store(r.c, StoredKey("asymmetries"), asymmetry(Val(r))),
                     asymmetry(Val(r)))

StatReads == {"max_neighbors", "min_neighbors", "mean_neighbors", "histogram",
              "diagW2", "trcW2", "asymmetries", "s0"}

StatGetter(name, c) ==
    CASE name = "max_neighbors" -> get_max_neighbors(c)
      [] name = "min_neighbors" -> get_min_neighbors(c)
      [] name = "mean_neighbors" -> get_mean_neighbors(c, _mean_neighbors)
      [] name = "histogram" -> get_histogram(c)
      [] name = "diagW2" -> get_diagW2(c)
      [] name = "trcW2" -> get_trcW2(c)
      [] name = "asymmetries" -> get_asymmetries(c)
      [] name = "s0" -> get_s0(c)

\* one read of a statistic; last keeps which one and what it returned
ReadStat(name) ==
    LET Returns(r) ==
            /\ cache' = r.c
            /\ _mean_neighbors' =
                  IF name = "mean_neighbors" THEN r.attr ELSE _mean_neighbors
            /\ last' = [op |-> "read", raised |-> r.raised, name |-> name,
                        v |-> r.v]
    IN  /\ Returns(StatGetter(name, cache))
        /\ UNCHANGED <<neighbors, weights, transformations, transform, id_order,
                       id_order_set, w0, np_float, detached>>

----------------------------------------------------------------------------
(* W._reset *)

\* faulty variant: the cache is left as it is
_reset_skipped == cache' = cache

_reset == cache' = EmptyCache

----------------------------------------------------------------------------
(* id_order setter: W.__set_id_order *)

\* faulty variant: an accepted assignment also brings back the original weights
set_id_order_restoring(ordered_ids) ==
    IF SetOf(id_order) = SetOf(ordered_ids)
    THEN /\ id_order' = ordered_ids
         /\ id_order_set' = TRUE
         /\ cache' = EmptyCache
         /\ last' = [op |-> "id_order", raised |-> FALSE]
         /\ weights' = transformations["O"]
         /\ UNCHANGED <<neighbors, transformations, transform, w0,
                        np_float, _mean_neighbors, detached>>
    ELSE /\ last' = [op |-> "id_order", raised |-> TRUE]
         /\ UNCHANGED <<neighbors, weights, transformations, transform, id_order,
                        id_order_set, cache, w0, np_float, _mean_neighbors, detached>>

set_id_order(ordered_ids) ==
    IF SetOf(id_order) = SetOf(ordered_ids)
    THEN /\ id_order' = ordered_ids
         /\ id_order_set' = TRUE
         /\ _reset
         /\ last' = Outcome("id_order", FALSE)
         /\ UNCHANGED <<neighbors, weights, transformations, transform, w0,
                        np_float, _mean_neighbors, detached>>
    ELSE /\ last' = Outcome("id_order", TRUE)
         /\ UNCHANGED <<neighbors, weights, transformations, transform, id_order,
                        id_order_set, cache, w0, np_float, _mean_neighbors, detached>>

----------------------------------------------------------------------------
(* Transformations: W.set_transform *)

\* value.upper() on the names the model passes
Upper(value) ==
    CASE value = "o" -> "O"
      [] value = "b" -> "B"
      [] value = "r" -> "R"
      [] value = "d" -> "D"
      [] value = "v" -> "V"
      [] value = "x" -> "X"
      [] OTHER -> value

TransformInputs == {"O", "B", "R", "D", "V", "X", "o", "b", "r", "d", "v", "x"}

\* wij / row_sum on Python floats: a zero divisor is a ZeroDivisionError
RowRaises(row, divisor) == row # <<>> /\ IsZero(divisor)

\* "R": weights[i] = [wij / row_sum for wij in wijs], row_sum = sum(wijs) * 1.0
\* faulty variant: the row is divided by its length
RowSum_count(row) == Int2Num(Len(row))
RowSum(row) == Mul(SumSeq(row), One)
\* faulty variant: the quotients come out in reverse order
RowStandardize_reversed(row) ==
    [k \in DOMAIN row |-> Div(row[Len(row) + 1 - k], RowSum(row))]
RowStandardize(row) == [k \in DOMAIN row |-> Div(row[k], RowSum(row))]
R_raises(w) == \E i \in DOMAIN w : RowRaises(w[i], RowSum(w[i]))
R_weights(w) == [i \in DOMAIN w |-> RowStandardize(w[i])]

\* "B": weights[i] = [1.0 for wij in wijs]
\* faulty variant: one weight per id instead of one per neighbor
B_weights_per_id(w) == [i \in DOMAIN w |-> IF w[i] = <<>> THEN <<>> ELSE <<One>>]
\* faulty variant: 1.0 for a weight other than zero, 0.0 for a zero weight
B_weights_nonzero(w) ==
    [i \in DOMAIN w |-> [k \in DOMAIN w[i] |-> IF IsZero(w[i][k]) THEN Zero ELSE One]]
B_weights(w) == [i \in DOMAIN w |-> [k \in DOMAIN w[i] |-> One]]

\* "D": ws = 1.0 / s0 (a numpy scalar: no exception), weights[i] = [wij * ws ...]
\* faulty variant: the original weights are scaled, not the current ones
D_weights_original(w, s0) ==
    [i \in DOMAIN w |->
        [k \in DOMAIN w[i] |-> Mul(transformations["O"][i][k], Inv(s0))]]
\* faulty variant: every row is scaled by its own sum
D_weights_by_row(w, s0) ==
    [i \in DOMAIN w |-> [k \in DOMAIN w[i] |-> Mul(w[i][k], Inv(SumSeq(w[i])))]]
D_weights(w, s0) == [i \in DOMAIN w |-> [k \in DOMAIN w[i] |-> Mul(w[i][k], Inv(s0))]]

\* "V": q[i] = math.sqrt(sum([wij * wij ...])), s[i] = [wij / q[i] ...]
V_q(row) == Sqrt(SumSeq([k \in DOMAIN row |-> Mul(row[k], row[k])]))
V_s(row) == [k \in DOMAIN row |-> Div(row[k], V_q(row))]
V_row_raises(w) == \E i \in DOMAIN w : RowRaises(w[i], V_q(w[i]))

RECURSIVE V_Q(_, _)
\* Q += sum([si for si in s[i]]) over the ids in D
V_Q(w, D) ==
    IF D = {} THEN Zero
    ELSE LET i == CHOOSE x \in D : TRUE
         IN  Add(SumSeq(V_s(w[i])), V_Q(w, D \ {i}))

\* nQ = self.n / Q, weights[i] = [w * nQ for w in s[i]]
V_weights(w, n) ==
    LET nQ == Div(Int2Num(n), V_Q(w, DOMAIN w))
    IN  [i \in DOMAIN w |-> [k \in DOMAIN w[i] |-> Mul(V_s(w[i])[k], nQ)]]

\* faulty variant: the new weights are written into the current mapping, which the
\* registry may hold under another name
Register_aliased(value, w) ==
    /\ transformations' =
          [t \in DOMAIN transformations \cup {value} |->
              IF t = value \/ transformations[t] = weights THEN w
              ELSE transformations[t]]
    /\ weights' = w
    /\ cache' = EmptyCache
    /\ last' = [op |-> "set_transform", raised |-> FALSE]

\* self.transformations[value] = weights; self.weights = weights; self._reset()
Register(value, w) ==
    /\ transformations' = (value :> w) @@ transformations
    /\ weights' = w
    /\ _reset
    /\ last' = Outcome("set_transform", FALSE)

\* faulty variant: a registered name always brings back the original weights
Install_original(value) ==
    /\ weights' = transformations["O"]
    /\ cache' = EmptyCache
    /\ last' = [op |-> "set_transform", raised |-> FALSE]
    /\ UNCHANGED transformations

\* self.weights = self.transformations[value]; self._reset()
Install(value) ==
    /\ weights' = transformations[value]
    /\ _reset
    /\ last' = Outcome("set_transform", FALSE)
    /\ UNCHANGED transformations

\* an exception leaves set_transform after self._transform was assigned
Abort(c) ==
    /\ cache' = c
    /\ last' = Outcome("set_transform", TRUE)
    /\ UNCHANGED <<weights, transformations, np_float>>

\* the mapping of name becomes current; numpy tells whether its lists hold
\* numpy.float64 scalars
Typed(name, numpy) ==
    np_float' = [weights |-> numpy,
                 names |-> IF numpy THEN np_float.names \cup {name}
                           ELSE np_float.names]

set_transform(value) ==
    LET v == Upper(value)
        \* a division by zero raises ZeroDivisionError between Python floats
        \* and gives inf or nan as soon as one operand is a numpy.float64
        python == ~np_float.weights
    IN  /\ transform' = v
        /\ UNCHANGED <<neighbors, id_order, id_order_set, w0, _mean_neighbors, detached>>
        /\ IF v \in DOMAIN transformations
           THEN Install(v) /\ Typed(v, v \in np_float.names)
           ELSE CASE v = "R" ->
                       IF python /\ R_raises(weights) THEN Abort(cache)
                       ELSE /\ Register(v, R_weights(weights))
                            /\ Typed(v, np_float.weights)
                  [] v = "D" ->
                       \* s0 is sparse.sum(), a numpy.float64, and so is ws
                       LET r == get_s0(EmptyCache)
                       IN  IF r.raised THEN Abort(r.c)
                           ELSE /\ Register(v, D_weights(weights, Val(r)))
                                /\ Typed(v, TRUE)
                  [] v = "B" -> Register(v, B_weights(weights)) /\ Typed(v, FALSE)
                  [] v = "V" ->
                       \* Q = 0.0 + sum(s[i]) + ... stays a Python float while
                       \* every s[i] is empty
                       LET r == get_cardinalities(cache)
                           rn == get_n(r.c)
                           pythonQ == python \/ \A i \in DOMAIN weights : weights[i] = <<>>
                       IN  IF r.raised THEN Abort(r.c)
                           ELSE IF python /\ V_row_raises(weights) THEN Abort(r.c)
                           ELSE IF pythonQ /\ IsZero(V_Q(weights, DOMAIN weights))
                                THEN Abort(rn.c)
                           ELSE /\ Register(v, V_weights(weights, Val(rn)))
                                /\ Typed(v, np_float.weights)
                  [] v = "O" -> Install(v) /\ Typed(v, FALSE)
                  [] OTHER ->
                       \* print 'unsupported weights transformation'
                       /\ last' = Outcome("set_transform", FALSE)
                       /\ UNCHANGED <<weights, transformations, cache, np_float>>

----------------------------------------------------------------------------
(* Iteration: W.__getitem__, W.__iter__ and _W_iter.next *)

\* dict(zip(self.neighbors[key], self.weights[key])): a neighbor listed twice
\* keeps the weight of its last listing
getitem(key) ==
    [j \in SetOf(neighbors[key]) |->
        weights[key][MaxOf({k \in DOMAIN neighbors[key] : neighbors[key][k] = j})]]

\* _W_iter.__init__: n is taken once, _idx starts at 0; out lists the ids
\* whose items next has returned, value is the item returned last.  The
\* iterator keeps the container (self.w = w) and no copy of its id_order:
\* order only records the id_order at the time of the call
W_iter == [n |-> Len(id_order), _idx |-> 0, out |-> <<>>, value |-> <<>>,
           stopped |-> FALSE, raised |-> FALSE, order |-> id_order]

\* iter(w)
Iter ==
    /\ Len(iters) < MaxIters
    /\ iters' = Append(iters, W_iter)
    /\ last' = Outcome("__iter__", FALSE)
    /\ UNCHANGED <<neighbors, weights, transformations, transform, id_order,
                   id_order_set, cache, w0, np_float, _mean_neighbors,
                   higher, shimbel_info, wsp>>

\* _W_iter.next of iterator k: the iterators after the call.  The id is read
\* from the id_order the container has now; a position past its end is an
\* IndexError, an id that is no key a KeyError
next(k) ==
    LET it == iters[k]
    IN  IF it._idx >= it.n
        THEN [iters EXCEPT ![k] = [it EXCEPT !._idx = 0, !.stopped = TRUE]]
        ELSE IF it._idx + 1 > Len(id_order) \/ id_order[it._idx + 1] \notin Ids
        THEN [iters EXCEPT ![k] = [it EXCEPT !.raised = TRUE]]
        ELSE [iters EXCEPT ![k] =
                 [it EXCEPT !._idx = it._idx + 1,
                            !.out = Append(it.out, id_order[it._idx + 1]),
                            !.value = getitem(id_order[it._idx + 1])]]

\* one step of a for statement over iterator k, which calls next until it raises
IterNext ==
    \E k \in DOMAIN iters :
       /\ ~iters[k].stopped /\ ~iters[k].raised
       /\ iters' = next(k)
       /\ last' = Outcome("next", iters'[k].stopped \/ iters'[k].raised)
       /\ UNCHANGED <<neighbors, weights, transformations, transform, id_order,
                      id_order_set, cache, w0, np_float, _mean_neighbors,
                      higher, shimbel_info, wsp>>

----------------------------------------------------------------------------
(* Contiguity order: W.shimbel, W.order and W.higher_order hand over to    *)
(* util, which works on the neighbor lists alone                           *)

\* the mark of an id not reached within kmax
Unreached == 0

NeighborSet(i) == SetOf(neighbors[i])

RECURSIVE Ball(_, _)
\* the ids within k steps of i
Ball(i, k) ==
    IF k = 0 THEN {i}
    ELSE LET b == Ball(i, k - 1) IN b \cup UNION {NeighborSet(j) : j \in b}

\* breadth first: the first k at which j is met, the shortest path length
PathLength(i, j, kmax) ==
    IF \E k \in 1..kmax : j \in Ball(i, k)
    THEN MinOf({k \in 1..kmax : j \in Ball(i, k)})
    ELSE Unreached

\* W.order: for every id a list aligned to id_order, -1 in its own position
order(kmax) ==
    [i \in Ids |->
        [p \in DOMAIN id_order |->
            IF id_order[p] = i THEN -1 ELSE PathLength(i, id_order[p], kmax)]]

\* faulty variant: the table stops at the first order
shimbel_first_order == order(1)

\* W.shimbel: the same, unbounded
shimbel == order(Cardinality(Ids))

RECURSIVE Walk(_, _)
\* the ids at the end of a path of exactly p steps from i: where row i of the
\* p-th power of the binary matrix is nonzero
Walk(i, p) ==
    IF p = 0 THEN {i} ELSE UNION {NeighborSet(j) : j \in Walk(i, p - 1)}

\* the pairs of power k, less i itself and what a lower power accounted for
OrderNeighbors(i, k) ==
    {j \in Walk(i, k) : j # i /\ \A p \in 1..(k - 1) : j \notin Walk(i, p)}

\* faulty variant: nothing of the lower powers is masked out
higher_order_unmasked(k) ==
    LET nb == [i \in Ids |-> SortedSeq(Walk(i, k) \ {i})]
    IN  [neighbors |-> nb, weights |-> DefaultWeights(nb), transform |-> "O"]

\* W.higher_order: a new W of the order-k neighbors, every weight 1.0
higher_order(k) ==
    LET nb == [i \in Ids |-> SortedSeq(OrderNeighbors(i, k))]
    IN  [neighbors |-> nb, weights |-> DefaultWeights(nb), transform |-> "O"]

\* w.higher_order(k), the value kept
HigherOrder ==
    \E k \in 1..MaxOrder :
       /\ higher' = (k :> higher_order(k)) @@ higher
       /\ last' = Outcome("higher_order", FALSE)
       /\ UNCHANGED <<neighbors, weights, transformations, transform, id_order,
                      id_order_set, cache, w0, np_float, _mean_neighbors,
                      iters, shimbel_info, wsp>>

\* w.shimbel(), the value kept
Shimbel ==
    /\ shimbel_info' = shimbel
    /\ last' = Outcome("shimbel", FALSE)
    /\ UNCHANGED <<neighbors, weights, transformations, transform, id_order,
                   id_order_set, cache, w0, np_float, _mean_neighbors,
                   iters, higher, wsp>>

----------------------------------------------------------------------------
(* class WSP *)

\* the arguments (n, row, col, weights); weights = <<>> is the default []
WSPArgs(n, row, col, w) == [n |-> n, row |-> row, col |-> col, weights |-> w]

\* row and column lists: the docstring's, one with a cell listed twice, one
\* with no pair of opposite cells, and the empty one
WSPCoords ==
    {[n |-> 4, row |-> <<0, 1, 1, 2, 2, 3>>, col |-> <<1, 0, 2, 1, 3, 3>>],
     [n |-> 3, row |-> <<0, 0, 1, 2>>, col |-> <<1, 1, 2, 2>>],
     [n |-> 3, row |-> <<0, 1, 2>>, col |-> <<1, 2, 0>>],
     [n |-> 2, row |-> <<>>, col |-> <<>>]}

\* weights for a list of m cells: none, multiples of 1..m, fractions, zeros
WSPWeights(m) ==
    {NoWeights}
    \cup {[p \in 1..m |-> Int2Num(k * p)] : k \in 1..MaxScale}
    \cup {[p \in 1..m |-> Norm(p, 0, 4 * k)] : k \in 1..MaxScale}
    \cup {[p \in 1..m |-> Zero]}

\* one weight per listed cell, as csr_matrix needs, or none; and the
\* docstring's weights [1, 0.75, 0.25, 0.9, 0.1, 1]
WSPInputs ==
    UNION {{WSPArgs(c.n, c.row, c.col, w) : w \in WSPWeights(Len(c.row))} :
             c \in WSPCoords}
    \cup {WSPArgs(4, <<0, 1, 1, 2, 2, 3>>, <<1, 0, 2, 1, 3, 3>>,
                   <<One, Num(3, 0, 4), Num(1, 0, 4), Num(9, 0, 10),
                     Num(1, 0, 10), One>>)}

\* if not weights: weights = np.ones(len(row))
WSP_weights_zeros(a) ==
    IF a.weights = <<>> THEN [p \in DOMAIN a.row |-> Zero] ELSE a.weights
WSP_weights(a) ==
    IF a.weights = <<>> THEN [p \in DOMAIN a.row |-> One] ELSE a.weights

RECURSIVE SumAt(_, _)
SumAt(P, w) ==
    IF P = {} THEN Zero
    ELSE LET p == CHOOSE x \in P : TRUE IN Add(w[p], SumAt(P \ {p}, w))

\* sparse.csr_matrix((weights, (row, col)), shape=(n, n))
WSP_sparse(a) ==
    [shape |-> a.n,
     cell  |-> [rc \in (0..(a.n - 1)) \X (0..(a.n - 1)) |->
                  SumAt({p \in DOMAIN a.row : a.row[p] = rc[1] /\ a.col[p] = rc[2]},
                        WSP_weights(a))]]

\* WSP.__init__
WSP_init(a) ==
    [built |-> TRUE, n |-> a.n, sparse |-> WSP_sparse(a), cache |-> EmptyCache,
     args |-> a, reads |-> <<>>, returned |-> <<>>]

\* faulty variant: W'W alone
WSP_diagonal_WtW(m) ==
    [i \in 1..m.shape |->
        SumSeq([k \in 1..m.shape |->
                  Mul(m.cell[<<k - 1, i - 1>>], m.cell[<<k - 1, i - 1>>])])]

\* (wt * w + w * w).diagonal()
WSP_diagonal(m) ==
    [i \in 1..m.shape |->
        SumSeq([k \in 1..m.shape |->
                  Add(Mul(m.cell[<<k - 1, i - 1>>], m.cell[<<k - 1, i - 1>>]),
                      Mul(m.cell[<<i - 1, k - 1>>], m.cell[<<k - 1, i - 1>>]))])]

\* WSP.s0
WSP_s0(x, c) ==
    IF Cached(c, "s0") THEN Ok(c, c["s0"])
    ELSE Ok(Store(c, "s0", MatrixSum(x.sparse)), MatrixSum(x.sparse))

\* WSP.diagWtW_WW
WSP_diagWtW_WW(x, c) ==
    IF Cached(c, "diagWtW_WW") THEN Ok(c, c["diagWtW_WW"])
    ELSE Ok(Store(c, "diagWtW_WW", WSP_diagonal(x.sparse)), WSP_diagonal(x.sparse))

\* WSP.trcWtW_WW
WSP_trcWtW_WW(x, c) ==
    IF Cached(c, "trcWtW_WW") THEN Ok(c, c["trcWtW_WW"])
    ELSE LET r == WSP_diagWtW_WW(x, c)
         IN  Ok(Store(r.c, "trcWtW_WW", SumSeq(Val(r))), SumSeq(Val(r)))

WSPReads == {"s0", "diagWtW_WW", "trcWtW_WW"}

WSP_getter(name, x) ==
    CASE name = "s0" -> WSP_s0(x, x.cache)
      [] name = "diagWtW_WW" -> WSP_diagWtW_WW(x, x.cache)
      [] name = "trcWtW_WW" -> WSP_trcWtW_WW(x, x.cache)

\* one read of a WSP getter; the value returned and the number of reads of
\* the getter so far are kept
WSP_read(name) ==
    LET r == WSP_getter(name, wsp)
        k == IF name \in DOMAIN wsp.reads THEN wsp.reads[name] ELSE 0
    IN  /\ wsp.built
        /\ k < MaxReads
        /\ wsp' = [wsp EXCEPT !.cache = r.c,
                               !.reads = (name :> (k + 1)) @@ wsp.reads,
                               !.returned = (name :> Val(r)) @@ wsp.returned]
        /\ last' = Outcome("read", r.raised)
        /\ UNCHANGED <<neighbors, weights, transformations, transform, id_order,
                       id_order_set, cache, w0, np_float, _mean_neighbors,
                       iters, higher, shimbel_info>>

----------------------------------------------------------------------------
(* Specifications *)

\* Spec: every container, every transformation, s0 reads, a few id_orders
BasicOrders(S) == ValidOrders(S) \cup {Tail(SortedSeq(S))}

SetTransform == \E value \in TransformInputs : set_transform(value)

SetIdOrder == \E ordered_ids \in BasicOrders(Ids) : set_id_order(ordered_ids)

ReadS0 == Read("s0")

Next == SetTransform \/ SetIdOrder \/ ReadS0

Spec == Init /\ [][Next]_vars

\* SpecOrder: any id_order at construction and assignment, every getter
OrderContainers ==
    {Container(WithIsland, NoWeights), Container(Fan, W3(<<1, 7>>, <<1>>, <<2>>))}

InitOrder ==
    \E c \in OrderContainers :
      \E o \in CtorOrders(OrderInputs(DOMAIN c.neighbors)) :
         Construct(c, o) /\ Alone

Retransform == \E value \in {"R", "o", "d", "V"} : set_transform(value)

AssignIdOrder == \E ordered_ids \in OrderInputs(Ids) : set_id_order(ordered_ids)

ReadStatistic == \E name \in Reads : Read(name)

NextOrder == Retransform \/ AssignIdOrder \/ ReadStatistic

SpecOrder == InitOrder /\ [][NextOrder]_vars

\* SpecValidOrder: the same, from constructions with the default order or a
\* permutation of the ids
InitValidOrder ==
    \E c \in OrderContainers :
      \E o \in CtorOrders(ValidOrders(DOMAIN c.neighbors)) :
         Construct(c, o) /\ Alone

SpecValidOrder == InitValidOrder /\ [][NextOrder]_vars

\* SpecLattice: the 3x3 lattice of the docstrings beside weighted containers,
\* with the transformations O, B and R
LatticeContainers ==
    {Container(Lattice, NoWeights), Container(WithIsland, NoWeights)}
    \cup {Container(Path, W3(<<k>>, <<3 * k, 4 * k>>, <<2 * k>>)) : k \in 1..MaxScale}
    \cup {Container(Fan, W3(<<1, 7>>, <<1>>, <<-2>>)),
          Container(Path, W3(<<1>>, <<1, -1>>, <<1>>))}

InitLattice ==
    \E c \in LatticeContainers :
      \E o \in CtorOrders(ValidOrders(DOMAIN c.neighbors)) :
         Construct(c, o) /\ Alone

RowOrBinary == \E value \in {"r", "b", "O", "R", "B"} : set_transform(value)

NextLattice == RowOrBinary \/ SetIdOrder \/ ReadS0

SpecLattice == InitLattice /\ [][NextLattice]_vars

\* SpecSparse: as SpecValidOrder, with an island beside unequal weights
SparseContainers ==
    OrderContainers \cup {Container(WithIsland, W3(<<2>>, <<3>>, <<>>))}

InitSparse ==
    \E c \in SparseContainers :
      \E o \in CtorOrders(ValidOrders(DOMAIN c.neighbors)) :
         Construct(c, o) /\ Alone

SpecSparse == InitSparse /\ [][NextOrder]_vars

\* SpecContiguity: higher_order and shimbel on the lattice and on the small
\* containers, under the transformations O, B and R
ContiguityContainers ==
    {Container(Lattice, NoWeights), Container(WithIsland, NoWeights),
     Container(Path, W3(<<1>>, <<3, 4>>, <<2>>)), Container(Fan, NoWeights)}

InitContiguity ==
    \E c \in ContiguityContainers :
      \E o \in CtorOrders(ValidOrders(DOMAIN c.neighbors)) :
         Construct(c, o) /\ Alone

NextContiguity == HigherOrder \/ Shimbel \/ RowOrBinary

SpecContiguity == InitContiguity /\ [][NextContiguity]_vars

\* SpecWSP: a WSP of every drawn argument list and the reads of its getters
InitWSP ==
    /\ Construct(Container(Path, NoWeights), NoOrder)
    /\ iters = <<>> /\ higher = <<>> /\ shimbel_info = <<>>
    /\ \E a \in WSPInputs : wsp = WSP_init(a)

ReadWSP == \E name \in WSPReads : WSP_read(name)

SpecWSP == InitWSP /\ [][ReadWSP]_vars

\* SpecIter: iterators over a container of OrderContainers whose id_order is
\* assigned meanwhile
\* the orders assigned: the permutations, one that repeats an id and one
\* that lacks an id
IterOrders(S) ==
    ValidOrders(S) \cup {Append(SortedSeq(S), MinOf(S)), Tail(SortedSeq(S))}

ReorderIds == \E ordered_ids \in IterOrders(Ids) : set_id_order(ordered_ids)

NextIter == Iter \/ IterNext \/ ReorderIds

SpecIter == InitValidOrder /\ [][NextIter]_vars

\* SpecStats: the statistics read in any order under O and R, with an
\* island and with unequal weights
StatContainers ==
    {Container(WithIsland, NoWeights), Container(Path, NoWeights),
     Container(Fan, W3(<<1, 7>>, <<1>>, <<2>>))}

InitStats ==
    \E c \in StatContainers :
      \E o \in CtorOrders(ValidOrders(DOMAIN c.neighbors)) :
         Construct(c, o) /\ Alone

ReadStatistics == \E name \in StatReads : ReadStat(name)

RowOrOriginal == \E value \in {"r", "o"} : set_transform(value)

NextStats == ReadStatistics \/ RowOrOriginal

SpecStats == InitStats /\ [][NextStats]_vars

\* SpecSymmetry: asymmetries under O, R and D, on the lattice, with an island,
\* with unequal weights, and with weights that are equal in both directions
\* and sum to zero
SymmetryContainers ==
    {Container(Lattice, NoWeights), Container(WithIsland, NoWeights),
     Container(Fan, W3(<<1, 7>>, <<1>>, <<2>>)),
     Container(Fan, W3(<<-1, 1>>, <<1>>, <<-1>>))}

InitSymmetry ==
    \E c \in SymmetryContainers :
      \E o \in CtorOrders(ValidOrders(DOMAIN c.neighbors)) :
         Construct(c, o) /\ Alone

ReadAsymmetries == ReadStat("asymmetries")

Rescale == \E value \in {"r", "o", "d"} : set_transform(value)

NextSymmetry == ReadAsymmetries \/ Rescale

SpecSymmetry == InitSymmetry /\ [][NextSymmetry]_vars

----------------------------------------------------------------------------
(* Properties *)

Supported == {"O", "B", "R", "D", "V"}

Computed == DOMAIN transformations \ {"O"}

TransformDone == last = Outcome("set_transform", FALSE)

IsPermutation(s, S) == Len(s) = Cardinality(S) /\ SetOf(s) = S

AllFinite(w) == \A i \in DOMAIN w : \A k \in DOMAIN w[i] : IsFinite(w[i][k])

RECURSIVE SumRows(_, _)
SumRows(w, D) ==
    IF D = {} THEN Zero
    ELSE LET i == CHOOSE x \in D : TRUE
         IN  Add(SumSeq(w[i]), SumRows(w, D \ {i}))

\* C1: after set_transform('O') the weights are, id by id and position by
\* position, the weights of the construction, whatever was called before;
\* the registry entry of O stays that mapping
C1_OriginalRestored ==
    /\ transformations["O"] = w0
    /\ transform = "O" => weights = w0

C1_Witness ==
    /\ TransformDone /\ transform = "O" /\ weights = w0
    /\ {"R", "D", "V"} \subseteq Computed
    /\ w0 # B_weights(w0)
    /\ id_order_set

\* C2: a set_transform call with an unsupported name raises nothing and
\* leaves the transform name, the weights, the registry and the cache as
\* they were
C2_UnsupportedChangesNothing ==
    [][(last'.op = "set_transform" /\ transform' \notin Supported)
          => /\ ~last'.raised
             /\ transform' = transform
             /\ weights' = weights
             /\ transformations' = transformations
             /\ cache' = cache]_vars

\* C3: an id_order assignment is accepted only when the set of the assigned
\* ids is the id set of the container
C3_MismatchRejected ==
    last = Outcome("id_order", FALSE) => SetOf(id_order) = Ids

\* C4: no container is constructed with an id_order that is not a
\* permutation of the keys of neighbors
C4_ConstructionRejectsNonPermutation ==
    last.op = "__init__" => IsPermutation(id_order, Ids)

\* C5: id_order is a bijection onto the id set: n entries, every id, none
\* twice
C5_IdOrderBijection == IsPermutation(id_order, Ids)

\* C6: the weights list of every id is as long as its neighbors list, for
\* the current weights and for every registered transformation
C6_Aligned ==
    /\ Aligned(neighbors, weights)
    /\ \A t \in DOMAIN transformations : Aligned(neighbors, transformations[t])

C6_Witness ==
    /\ TransformDone /\ transform = "V"
    /\ {"B", "R", "D", "V"} = Computed
    /\ \E i \in Ids : Len(neighbors[i]) = 2

\* C7: transform is one of O, B, R, D, V and the current weights are the
\* mapping registered under it
C7_TransformRegistered ==
    /\ transform \in Supported
    /\ transform \in DOMAIN transformations
    /\ weights = transformations[transform]

\* C8: when set_transform to a supported name or an id_order assignment has
\* returned, the cache is empty; a cached s0, id2i, neighbor offsets or
\* sparse matrix is never one of older weights or of an older id_order
C8_CacheCleared ==
    /\ (TransformDone /\ transform \in Supported) => cache = EmptyCache
    /\ last = Outcome("id_order", FALSE) => cache = EmptyCache
    /\ Cached(cache, "s0") => cache["s0"] = SumRows(weights, Ids)
    /\ Cached(cache, "id2i") =>
          \A k \in DOMAIN id_order : cache["id2i"][id_order[k]] = k - 1
    /\ Cached(cache, "neighbors_0") =>
          \A e \in Edges : id_order[cache["neighbors_0"][e[1]][e[2]] + 1]
                              = neighbors[e[1]][e[2]]
    /\ Cached(cache, "sparse") =>
          \A e \in Edges :
             \E k \in DOMAIN id_order, j \in DOMAIN id_order :
                /\ id_order[k] = e[1] /\ id_order[j] = neighbors[e[1]][e[2]]
                /\ cache["sparse"].cell[<<k - 1, j - 1>>] = weights[e[1]][e[2]]

C8_Witness ==
    /\ TransformDone /\ transform = "D" /\ "D" \in Computed
    /\ cache = EmptyCache
    /\ id_order_set /\ id_order # SortedSeq(Ids)
    /\ weights # w0

\* C9 as claimed: after set_transform('R') s0 equals the number of units
RCurrent == transform = "R" /\ "R" \in Computed

NonIslands == {i \in Ids : neighbors[i] # <<>>}

Half == Num(1, 0, 2)

C10_RowStandardized ==
    [][/\ (TransformDone' /\ transform' = "R" /\ "R" \notin Computed)
            => /\ transformations'["R"] = weights'
               /\ \A i \in Ids :
                    /\ Len(weights'[i]) = Len(weights[i])
                    /\ \A k \in DOMAIN weights[i] :
                         Mul(weights'[i][k], SumSeq(weights[i])) = weights[i][k]
       /\ (neighbors' = Lattice /\ RCurrent') => weights'[0] = <<Half, Half>>
       /\ (neighbors' = Lattice /\ transform' = "B") => weights'[0] = <<One, One>>
      ]_vars

C10_Witness ==
    /\ neighbors = Lattice
    /\ TransformDone /\ transform = "B" /\ weights[0] = <<One, One>>
    /\ "R" \in Computed /\ transformations["R"][0] = <<Half, Half>>

\* C11: a set_transform call that names the supported transform already in
\* force changes neither the weights nor the registry, and s0 read after it
\* is the s0 that was read before it; the same when the call before it was
\* that very call and raised
C11_RepeatIsIdempotent ==
    [][/\ (last'.op = "set_transform" /\ transform' = transform
            /\ transform \in Supported /\ transform \in DOMAIN transformations)
           => /\ weights' = weights
              /\ transformations' = transformations
              /\ ~last'.raised
              /\ cache' = EmptyCache
              /\ Cached(cache, "s0") => Val(get_s0(EmptyCache)) = cache["s0"]
       /\ (last'.op = "set_transform" /\ transform' = transform
            /\ transform \in Supported /\ last.op = "set_transform")
           => /\ weights' = weights
              /\ transformations' = transformations
              /\ last'.raised = last.raised
      ]_vars

\* s0 was read under V, then V was set again and s0 read again
C11_Witness ==
    /\ transform = "V" /\ "V" \in Computed /\ weights # w0
    /\ last = Outcome("read", FALSE) /\ Cached(cache, "s0")
    /\ {"R", "D"} \subseteq Computed
    /\ id_order_set
\* the current weight from id i to id j, 0.0 when j is no neighbor of i
WeightTo(i, j) == SumEdges({e \in Edges : e[1] = i /\ neighbors[i][e[2]] = j}, weights)

\* C12: while id_order is a permutation of the ids, a cached sparse matrix
\* is n by n and its entry (r, c) is the current weight from id_order[r] to
\* id_order[c], 0.0 when there is none, an island keeping its row and its
\* column; cached neighbor offsets give, for every id, the positions in the
\* current id_order of its neighbors, in neighbor-list order
C12_SparseFollowsIdOrder ==
    IsPermutation(id_order, Ids) =>
      /\ Cached(cache, "sparse") =>
            /\ cache["sparse"].shape = Cardinality(Ids)
            /\ DOMAIN cache["sparse"].cell
                  = (0..(Cardinality(Ids) - 1)) \X (0..(Cardinality(Ids) - 1))
            /\ \A r \in DOMAIN id_order, c \in DOMAIN id_order :
                  cache["sparse"].cell[<<r - 1, c - 1>>]
                     = WeightTo(id_order[r], id_order[c])
      /\ Cached(cache, "neighbors_0") =>
            /\ DOMAIN cache["neighbors_0"] = Ids
            /\ \A i \in Ids :
                  /\ Len(cache["neighbors_0"][i]) = Len(neighbors[i])
                  /\ \A k \in DOMAIN neighbors[i] :
                        id_order[cache["neighbors_0"][i][k] + 1] = neighbors[i][k]

\* sparse and the offsets read under a transformed, asymmetric weighting and
\* an assigned order that is not the sorted one, on a container with an island
C12_Witness ==
    /\ IsPermutation(id_order, Ids) /\ id_order_set /\ id_order # SortedSeq(Ids)
    /\ Cached(cache, "sparse") /\ Cached(cache, "neighbors_0")
    /\ transform = "D" /\ "D" \in Computed /\ weights # w0
    /\ \E i \in Ids : neighbors[i] = <<>>
    /\ \E i \in Ids, j \in Ids : WeightTo(i, j) # WeightTo(j, i)
\* the sum of the squares of a row
SquareSum(row) == SumSeq([k \in DOMAIN row |-> Mul(row[k], row[k])])

\* new is what name makes of old: B all ones; R every row over its sum (a row
\* that sums to zero has no quotient: it raises or becomes inf/nan); D every
\* weight over the global sum; V rows in proportion to the old ones, all of
\* one length, and n in total
ComputedFrom(name, old, new) ==
    /\ \A i \in Ids : Len(new[i]) = Len(old[i])
    /\ name = "B" => \A e \in Edges : new[e[1]][e[2]] = One
    /\ name = "R" =>
          \A e \in Edges :
             ~IsZero(SumSeq(old[e[1]])) =>
                Mul(new[e[1]][e[2]], SumSeq(old[e[1]])) = old[e[1]][e[2]]
    /\ (name = "D" /\ IsFinite(SumRows(old, Ids)) /\ ~IsZero(SumRows(old, Ids))) =>
          \A e \in Edges : Mul(new[e[1]][e[2]], SumRows(old, Ids)) = old[e[1]][e[2]]
    /\ (name = "V" /\ AllFinite(new)) =>
          /\ SumRows(new, Ids) = Int2Num(Cardinality(Ids))
          /\ \A i \in NonIslands, j \in NonIslands :
                SquareSum(new[i]) = SquareSum(new[j])
          /\ \A i \in Ids : \A k \in DOMAIN old[i], j \in DOMAIN old[i] :
                Mul(new[i][k], old[i][j]) = Mul(new[i][j], old[i][k])

\* C20: no step changes or removes a registry entry; a set_transform that
\* finds its name registered installs the registered mapping; one that
\* registers B, R, D or V stores what the name makes of the weights current
\* before the call, and those are the new weights
C20_RegistryWriteOnce ==
    [][/\ \A t \in DOMAIN transformations :
             t \in DOMAIN transformations' /\ transformations'[t] = transformations[t]
       /\ (last'.op = "set_transform" /\ transform' \in DOMAIN transformations)
             => /\ weights' = transformations[transform']
                /\ transformations' = transformations
       /\ (last'.op = "set_transform" /\ transform' \notin DOMAIN transformations
            /\ transform' \in DOMAIN transformations')
             => /\ DOMAIN transformations' = DOMAIN transformations \cup {transform'}
                /\ weights' = transformations'[transform']
                /\ AllFinite(weights) =>
                      ComputedFrom(transform', weights, transformations'[transform'])
      ]_vars

\* D holds what was made of other weights than the original ones, and was
\* installed again after the other names had been registered
C20_Witness ==
    /\ TransformDone /\ transform = "D" /\ weights = transformations["D"]
    /\ {"B", "R", "V"} \subseteq Computed
    /\ AllFinite(weights)
    /\ weights # D_weights(w0, SumRows(w0, Ids))
    /\ transformations["O"] = w0 /\ w0 # B_weights(w0)
\* C14: of the containers higher_order returned for different orders, no two
\* give one origin a common neighbor
C14_OrdersDisjoint ==
    \A k1 \in DOMAIN higher, k2 \in DOMAIN higher :
       k1 # k2 =>
         \A i \in Ids :
            SetOf(higher[k1].neighbors[i]) \cap SetOf(higher[k2].neighbors[i]) = {}

\* every order asked for on the lattice, where the corner opposite to 0 is
\* four steps away and paths of three steps lead back to the first ring
C14_Witness ==
    /\ neighbors = Lattice
    /\ DOMAIN higher = 1..MaxOrder
    /\ higher[4].neighbors[0] = <<8>>
    /\ 1 \in Walk(0, 3) /\ 1 \notin SetOf(higher[3].neighbors[0])

\* the position of id j in id_order
PositionOf(j) == CHOOSE p \in DOMAIN id_order : id_order[p] = j

\* t is the table of the shortest path lengths: an id is one step away
\* exactly when it is a neighbor, d + 1 steps when it is a neighbor of an id
\* d steps away and of none that is nearer, and unreached when it is a
\* neighbor of no reached id
IsShortestPathTable(t) ==
    /\ DOMAIN t = Ids
    /\ \A i \in Ids :
          /\ Len(t[i]) = Len(id_order)
          /\ t[i][PositionOf(i)] = -1
          /\ \A j \in Ids \ {i} :
                LET d == t[i][PositionOf(j)]
                    From == {m \in Ids : j \in NeighborSet(m)
                                         /\ (m = i \/ t[i][PositionOf(m)] >= 1)}
                    Steps(m) == IF m = i THEN 1 ELSE t[i][PositionOf(m)] + 1
                IN  IF From = {} THEN d = Unreached
                    ELSE d = MinOf({Steps(m) : m \in From})

\* C15: a container higher_order(k) returned has, for every id i, exactly
\* the ids k steps from i as neighbors, each once and never i, every weight
\* 1.0 and the transform O; a table shimbel returned holds the shortest path
\* lengths with -1 for an id itself, and j is an order-k neighbor of i
\* exactly when the table has k for the pair; on the 3x3 lattice the table
\* of 0 starts -1, 1, 2 and has 4 for the opposite corner
C15_HigherOrderIsDistance ==
    /\ \A k \in DOMAIN higher :
          /\ DOMAIN higher[k].neighbors = Ids
          /\ higher[k].transform = "O"
          /\ \A i \in Ids :
                /\ i \notin SetOf(higher[k].neighbors[i])
                /\ Len(higher[k].neighbors[i])
                     = Cardinality(SetOf(higher[k].neighbors[i]))
                /\ higher[k].weights[i]
                     = [p \in DOMAIN higher[k].neighbors[i] |-> One]
                /\ k = 1 => SetOf(higher[k].neighbors[i]) = NeighborSet(i) \ {i}
          /\ shimbel_info # <<>> =>
                \A i \in Ids, j \in Ids :
                   j \in SetOf(higher[k].neighbors[i])
                      <=> shimbel_info[i][PositionOf(j)] = k
    /\ shimbel_info # <<>> =>
          /\ IsShortestPathTable(shimbel_info)
          /\ (neighbors = Lattice /\ id_order = SortedSeq(Ids)) =>
                /\ SubSeq(shimbel_info[0], 1, 3) = <<-1, 1, 2>>
                /\ shimbel_info[0][9] = 4

\* on the lattice under R, in reversed id_order: the table and every order
C15_Witness ==
    /\ neighbors = Lattice /\ transform = "R" /\ weights # w0
    /\ id_order = Reverse(SortedSeq(Ids))
    /\ shimbel_info # <<>> /\ DOMAIN higher = 1..MaxOrder
    /\ higher[2].neighbors[0] = <<2, 4, 6>>
    /\ shimbel_info[0][PositionOf(8)] = 4
RECURSIVE SumPairs(_, _)
\* the sum of w[p] * w[q] over the pairs <<p, q>> in P
SumPairs(P, w) ==
    IF P = {} THEN Zero
    ELSE LET x == CHOOSE y \in P : TRUE
         IN  Add(Mul(w[x[1]], w[x[2]]), SumPairs(P \ {x}, w))

\* trace(W'W + WW) from the listed cells: the squares of all entries, and the
\* products of the entries listed at (i, k) with those listed at (k, i);
\* listings of one cell add up
TraceOfListed(a, w) ==
    LET L == DOMAIN a.row
    IN  Add(SumPairs({<<p, q>> \in L \X L :
                        a.row[p] = a.row[q] /\ a.col[p] = a.col[q]}, w),
            SumPairs({<<p, q>> \in L \X L :
                        a.row[p] = a.col[q] /\ a.col[p] = a.row[q]}, w))

DocCoords == [n |-> 4, row |-> <<0, 1, 1, 2, 2, 3>>, col |-> <<1, 0, 2, 1, 3, 3>>]

\* C17: every read of s0 of a WSP returns the sum of the listed weights, the
\* number of listed cells when weights were omitted, and every read of
\* trcWtW_WW returns the trace of W'W + WW; for n=4, rows=[0,1,1,2,2,3],
\* cols=[1,0,2,1,3,3] these are 6 and 11 without weights
C17_WSPStatistics ==
    wsp.built =>
      LET a == wsp.args
          w == IF a.weights = NoWeights THEN [p \in DOMAIN a.row |-> One]
               ELSE a.weights
      IN  /\ wsp.n = a.n /\ wsp.sparse.shape = a.n
          /\ a.weights = NoWeights =>
                \A p \in DOMAIN a.row :
                   wsp.sparse.cell[<<a.row[p], a.col[p]>>]
                     = Int2Num(Cardinality({q \in DOMAIN a.row :
                                  a.row[q] = a.row[p] /\ a.col[q] = a.col[p]}))
          /\ "s0" \in DOMAIN wsp.returned =>
                /\ wsp.returned["s0"] = SumSeq(w)
                /\ a.weights = NoWeights => wsp.returned["s0"] = Int2Num(Len(a.row))
          /\ "trcWtW_WW" \in DOMAIN wsp.returned =>
                wsp.returned["trcWtW_WW"] = TraceOfListed(a, w)
          /\ (a = WSPArgs(4, DocCoords.row, DocCoords.col, NoWeights)) =>
                /\ "s0" \in DOMAIN wsp.returned => wsp.returned["s0"] = Int2Num(6)
                /\ "trcWtW_WW" \in DOMAIN wsp.returned =>
                      wsp.returned["trcWtW_WW"] = Int2Num(11)

\* the docstring's WSP after s0 and trcWtW_WW were each read more than once
C17_Witness ==
    /\ wsp.built
    /\ wsp.args = WSPArgs(4, DocCoords.row, DocCoords.col, NoWeights)
    /\ {"s0", "trcWtW_WW"} \subseteq DOMAIN wsp.reads
    /\ wsp.reads["s0"] >= 2 /\ wsp.reads["trcWtW_WW"] >= 2
    /\ wsp.returned["s0"] = Int2Num(6)
    /\ wsp.returned["trcWtW_WW"] = Int2Num(11)
\* C13: every iterator starts at position 0 with nothing yielded; a call of
\* next yields the mapping of the id at the iterator's position in id_order
\* and raises nothing but the final StopIteration, which comes after exactly
\* n items; a call of next on one iterator leaves every other iterator as
\* it was
C13_FreshIterationYieldsAll ==
    [][\A k \in DOMAIN iters' :
          /\ k \notin DOMAIN iters => (iters'[k]._idx = 0 /\ iters'[k].out = <<>>)
          /\ ~iters'[k].raised
          /\ iters'[k].stopped => Len(iters'[k].out) = Cardinality(Ids)
          /\ (k \in DOMAIN iters /\ Len(iters'[k].out) > Len(iters[k].out)) =>
                /\ iters'[k].out = Append(iters[k].out, id_order[iters[k]._idx + 1])
                /\ iters'[k].value = getitem(id_order[iters[k]._idx + 1])
                /\ \A j \in DOMAIN iters \ {k} : iters'[j] = iters[j]
      ]_vars
\* a == b on floats: NaN equals nothing
FloatEq(a, b) == ~IsNaN(a) /\ ~IsNaN(b) /\ a = b

\* C16: a cached asymmetries is empty exactly when the weight from i to j
\* equals the weight from j to i for all ids i and j, and holds the
\* <<row, col>> of the pairs of positions in id_order whose weights differ;
\* on the 3x3 lattice it is empty under unit weights and not empty under R
C16_AsymmetriesAreUnequalPairs ==
    Cached(cache, "asymmetries") =>
      /\ cache["asymmetries"] = {}
            <=> \A i \in Ids, j \in Ids : FloatEq(WeightTo(i, j), WeightTo(j, i))
      /\ cache["asymmetries"] =
            {rc \in (0..(Len(id_order) - 1)) \X (0..(Len(id_order) - 1)) :
                ~FloatEq(WeightTo(id_order[rc[1] + 1], id_order[rc[2] + 1]),
                         WeightTo(id_order[rc[2] + 1], id_order[rc[1] + 1]))}
      /\ (neighbors = Lattice /\ weights = DefaultWeights(Lattice))
            => cache["asymmetries"] = {}
      /\ (neighbors = Lattice /\ RCurrent) => cache["asymmetries"] # {}
\* the ids in sorted order, and the number of neighbors of each
IdList == SortedSeq(Ids)
CardinalityList == [k \in DOMAIN IdList |-> Len(neighbors[IdList[k]])]

\* what a statistic is, taken from neighbors, weights and id_order
StatValue(name) ==
    CASE name = "max_neighbors" -> MaxOf(SetOf(CardinalityList))
      [] name = "min_neighbors" -> MinOf(SetOf(CardinalityList))
      [] name = "mean_neighbors" ->
           Div(Int2Num(Cardinality(Edges)), Int2Num(Cardinality(Ids)))
      [] name = "histogram" ->
           [k \in 1..(MaxOf(SetOf(CardinalityList)) - MinOf(SetOf(CardinalityList)) + 1)
              |-> <<MinOf(SetOf(CardinalityList)) + k - 1,
                    Cardinality({i \in Ids : Len(neighbors[i])
                                   = MinOf(SetOf(CardinalityList)) + k - 1})>>]
      [] name = "diagW2" ->
           [r \in DOMAIN id_order |->
              SumSeq([k \in DOMAIN IdList |->
                        Mul(WeightTo(id_order[r], IdList[k]),
                            WeightTo(IdList[k], id_order[r]))])]
      [] name = "trcW2" ->
           SumSeq([r \in DOMAIN IdList |->
              SumSeq([k \in DOMAIN IdList |->
                        Mul(WeightTo(IdList[r], IdList[k]),
                            WeightTo(IdList[k], IdList[r]))])])
      [] name = "asymmetries" ->
           {rc \in (0..(Len(id_order) - 1)) \X (0..(Len(id_order) - 1)) :
               WeightTo(id_order[rc[1] + 1], id_order[rc[2] + 1])
                  # WeightTo(id_order[rc[2] + 1], id_order[rc[1] + 1])}
      [] name = "s0" -> SumRows(weights, Ids)

\* C18: a read of a statistic raises nothing and returns the value of the
\* statistic for the current neighbors, weights and id_order, whatever was
\* read before it in the cache generation; so does mean_neighbors after
\* max_neighbors or histogram
C18_EveryReadReturnsCurrentValue ==
    (last.op = "read" /\ last.name \in StatReads) =>
       /\ ~last.raised
       /\ last.v = <<StatValue(last.name)>>

\* C19: a getter whose value is stored for this cache generation does not
\* compute it again when read
C19_ComputedAtMostOnce ==
    \A name \in StatReads :
       Cached(cache, StoredKey(name)) => ~Computes(name, cache)

\* a step in which set_transform first registers name and returns
FirstRequest(name) ==
    /\ last'.op = "set_transform" /\ transform' = name
    /\ name \notin DOMAIN transformations /\ name \in DOMAIN transformations'

\* a step in which set_transform finds name registered
LaterSwitch(name) ==
    /\ last'.op = "set_transform" /\ transform' = name
    /\ name \in DOMAIN transformations

\* the global sum of a weights mapping is a number other than zero
Scalable(w) == IsFinite(SumRows(w, Ids)) /\ ~IsZero(SumRows(w, Ids))

Miss(name) ==
    /\ last'.op = "set_transform" /\ transform' = name
    /\ name \notin DOMAIN transformations

\* the rows R and V cannot scale: a non-empty row that sums to zero, a
\* non-empty row of zeros
ZeroSumRows(w) == {i \in DOMAIN w : w[i] # <<>> /\ IsZero(SumSeq(w[i]))}
AllZeroRows(w) == {i \in DOMAIN w : w[i] # <<>> /\ \A k \in DOMAIN w[i] : IsZero(w[i][k])}

\* the call returned and registered name; the rows in D hold only inf and
\* nan, and an island has an empty list
Propagated(name, D) ==
    /\ ~last'.raised
    /\ name \in DOMAIN transformations' /\ weights' = transformations'[name]
    /\ \A i \in D : \A k \in DOMAIN weights'[i] : ~IsFinite(weights'[i][k])
    /\ \A i \in Ids : neighbors[i] = <<>> => weights'[i] = <<>>

\* C22: a first set_transform('R') with a non-empty row that sums to zero,
\* and a first set_transform('V') with a non-empty row of zeros, do not
\* raise: the mapping is registered and current, the degenerate rows hold
\* inf or nan, and islands have empty weight lists
C22_DegenerateRowsPropagate ==
    [][/\ (Miss("R") /\ ZeroSumRows(weights) # {})
             => Propagated("R", ZeroSumRows(weights))
       /\ (Miss("V") /\ AllZeroRows(weights) # {})
             => Propagated("V", AllZeroRows(weights))
      ]_vars

\* C23: an iteration yields the ids of the id_order it started with, in that
\* order, also when another permutation of the ids has been assigned since:
\* a next() that returns an item returns the item of the id at the
\* iterator's position in the order current at __iter__
C23_IterationKeepsStartOrder ==
    [][\A k \in DOMAIN iters :
          (/\ last'.op = "next"
           /\ Len(iters'[k].out) = Len(iters[k].out) + 1
           /\ IsPermutation(iters[k].order, Ids) /\ IsPermutation(id_order, Ids))
             => /\ iters'[k].out = SubSeq(iters[k].order, 1, Len(iters'[k].out))
                /\ iters'[k].value = getitem(iters[k].order[Len(iters'[k].out)])
      ]_vars

\* the adjacency store, the transform state and the order
Structure == <<neighbors, weights, transformations, transform, id_order, id_order_set>>

\* C24: set_transform leaves neighbors, id_order and id_order_set alone and
\* keeps every registry entry of another name; an accepted id_order
\* assignment leaves neighbors, weights, transform and the registry alone
\* and sets id_order_set; a read of a derived statistic leaves all of these
\* alone (it changes the cache only)
C24_Frame ==
    [][/\ last'.op = "set_transform" =>
             /\ UNCHANGED <<neighbors, id_order, id_order_set>>
             /\ \A t \in DOMAIN transformations \ {transform'} :
                   t \in DOMAIN transformations'
                   /\ transformations'[t] = transformations[t]
       /\ (last'.op = "id_order" /\ ~last'.raised) =>
             /\ UNCHANGED <<neighbors, weights, transform, transformations>>
             /\ id_order_set'
       /\ last'.op = "read" => UNCHANGED Structure
      ]_vars

\* s0 was read after D had been made current and another order assigned,
\* and the weights are still those registered under D
C24_Witness ==
    /\ last = Outcome("read", FALSE) /\ Cached(cache, "s0")
    /\ id_order_set /\ id_order = Reverse(SortedSeq(Ids))
    /\ transform = "D" /\ {"R", "D"} \subseteq Computed
    /\ weights = transformations["D"] /\ weights # w0

\* what a container makes of its construction weights when name is the
\* first transform requested of it
Direct(name) ==
    CASE name = "B" -> [i \in Ids |-> [k \in DOMAIN neighbors[i] |-> One]]
      [] name = "R" -> [i \in Ids |-> [k \in DOMAIN w0[i] |-> Div(w0[i][k], SumSeq(w0[i]))]]
      [] name = "D" ->
           [i \in Ids |-> [k \in DOMAIN w0[i] |-> Mul(w0[i][k], Inv(SumRows(w0, Ids)))]]
      [] name = "V" -> V_weights(w0, Cardinality(Ids))

\* that first request returns: the construction weights are Python floats
DirectReturns(name) ==
    CASE name = "R" -> ZeroSumRows(w0) = {}
      [] name = "V" -> AllZeroRows(w0) = {} /\ ~IsZero(V_Q(w0, Ids))
      [] OTHER -> TRUE

\* C25 (as amended): the mapping registered for B is the same whatever went
\* before, one 1.0 per neighbor; the mapping registered for R, D or V is the
\* same as on a container that requested the name first of all whenever
\* the original weights were current at its first request
C25_SameMappingFromSameWeights ==
    [][/\ FirstRequest("B") => transformations'["B"] = Direct("B")
       /\ \A name \in {"R", "D", "V"} :
             (FirstRequest(name) /\ weights = w0)
                => transformations'[name] = Direct(name)
      ]_vars

\* B is current and was registered on a container whose weights are not all
\* 1.0, with R, D and V registered as well, R from other weights than the
\* original ones
C25_Witness ==
    /\ TransformDone /\ transform = "B" /\ weights = transformations["B"]
    /\ {"R", "D", "V"} \subseteq Computed
    /\ w0 # weights /\ DirectReturns("R")
    /\ transformations["R"] # Direct("R")

\* C25 as stated: a registered mapping of B, R, D or V is the one every
\* container of the same construction has under that name, so the one of
\* the container that requested the name first of all
C25_SameMappingForAName ==
    \A name \in Computed :
       DirectReturns(name) => transformations[name] = Direct(name)
====
